---------------------------- MODULE Spec2Model ----------------------------
(***************************************************************************)
(* Model of the vocabulary game's session engine (src/game/app):           *)
(*   - the word selector of GameWords (app/words.py), a pure function of   *)
(*     the catalogue and n_words plus random draws,                        *)
(*   - answer normalisation and checking (app/words.py, gui/answers.py),   *)
(*   - the session / retest state machine driven by the GUI callbacks      *)
(*     (gui/menu.py, gui/questions.py, gui/buttons.py, app/game.py,        *)
(*     app/utilities.py, main.py).                                         *)
(***************************************************************************)
EXTENDS Integers, Sequences, FiniteSets, TLC

(***************************************************************************)
(* Generic helpers for sequences and sets.                                 *)
(***************************************************************************)
Range(s) == {s[i] : i \in DOMAIN s}

Min(a, b) == IF a <= b THEN a ELSE b

Max(a, b) == IF a >= b THEN a ELSE b

\* All orderings of a finite set, as sequences without repetition.
Perms(S) ==
  {p \in [1..Cardinality(S) -> S] : \A i, j \in 1..Cardinality(S) : i # j => p[i] # p[j]}

\* All sequences without repetition of exactly k elements of S.
Arrangements(S, k) ==
  {p \in [1..k -> S] : \A i, j \in 1..k : i # j => p[i] # p[j]}

RECURSIVE SumSeq(_)
SumSeq(s) == IF s = <<>> THEN 0 ELSE Head(s) + SumSeq(Tail(s))

RECURSIVE Flatten(_)
Flatten(ss) == IF ss = <<>> THEN <<>> ELSE Head(ss) \o Flatten(Tail(ss))

\* The elements of a set of integers in ascending order.
RECURSIVE SortedSeq(_)
SortedSeq(S) ==
  IF S = {} THEN <<>>
  ELSE LET m == CHOOSE x \in S : \A y \in S : x <= y
       IN  <<m>> \o SortedSeq(S \ {m})

(***************************************************************************)
(* The catalogue: one row per (inflection, historical mark), left-joined   *)
(* so that an inflection without marks appears once with NULL mark fields. *)
(***************************************************************************)
NULL == -1

Row(id, ordgrupp, betyg, ts) ==
  [id |-> id, ordgrupp |-> ordgrupp, betyg |-> betyg, ts |-> ts]

\* pandas head(n): the first n rows, or all but the last |n| rows if n < 0.
head(s, n) ==
  IF n >= 0 THEN SubSeq(s, 1, Min(n, Len(s)))
  ELSE SubSeq(s, 1, Max(Len(s) + n, 0))

\* pandas tail slice [-3:]: the last three rows (all if fewer).
last3(s) == SubSeq(s, Max(Len(s) - 2, 1), Len(s))

\* A mean is kept exact as sum and count; count 0 is NaN.
Mean(marks) ==
  LET defined == SelectSeq(marks, LAMBDA m : m # NULL)
  IN  [s |-> SumSeq(defined), n |-> Len(defined)]

IsNaN(m) == m.n = 0

\* m1 < m2 on means; any comparison with NaN is false.
MeanLt(m1, m2) == ~IsNaN(m1) /\ ~IsNaN(m2) /\ m1.s * m2.n < m2.s * m1.n

\* mean < 1 as used by the struggling filter.
MeanLtOne(m) == ~IsNaN(m) /\ m.s < m.n

\* Order used by sort_values on a float column: ascending, NaN last.
MeanBefore(m1, m2) == IF IsNaN(m1) THEN FALSE ELSE (IsNaN(m2) \/ MeanLt(m1, m2))

\* Variant: the rows are left in the order the query returned them.
keep_row_order(rows) == rows

\* Rows ordered by timestamp ascending (timestamps of one inflection differ).
RECURSIVE sort_by_ts(_)
sort_by_ts(rows) ==
  IF rows = <<>> THEN <<>>
  ELSE LET i == CHOOSE k \in DOMAIN rows : \A j \in DOMAIN rows : rows[k].ts <= rows[j].ts
       IN  <<rows[i]>> \o sort_by_ts(SubSeq(rows, 1, i - 1) \o SubSeq(rows, i + 1, Len(rows)))

Betyg(rows) == [i \in DOMAIN rows |-> rows[i].betyg]

\* Statistics of one inflection of a group (select_inflection after the draw).
inflection_stats(group, selected_inflection) ==
  LET rows == SelectSeq(group, LAMBDA r : r.id = selected_inflection)
      marks == Betyg(rows)
  IN  [ordgrupp |-> group[1].ordgrupp,
       id |-> selected_inflection,
       frequency |-> SumSeq(SelectSeq(marks, LAMBDA m : m \in {0, 1})),
       mean_score |-> Mean(marks),
       mean_score_last_3 |-> Mean(last3(Betyg(sort_by_ts(rows))))]

\* select_inflection: one inflection of the group drawn at random.
select_inflection(group) ==
  {inflection_stats(group, i) : i \in {r.id : r \in Range(group)}}

GroupRows(words, g) == SelectSeq(words, LAMBDA r : r.ordgrupp = g)

\* groupby("ordgrupp").apply(select_inflection): one row per group, in
\* ascending group order; the set of tables the random draws can give.
RECURSIVE apply_groups(_, _)
apply_groups(words, groups) ==
  IF groups = <<>> THEN {<<>>}
  ELSE {<<st>> \o rest : st \in select_inflection(GroupRows(words, Head(groups))),
                         rest \in apply_groups(words, Tail(groups))}

\* Variant: the inflection is drawn for every catalogue row, not every group.
inflections_per_row(words) ==
  apply_groups(words, [i \in DOMAIN words |-> words[i].ordgrupp])

Inflections(words) ==
  apply_groups(words, SortedSeq({r.ordgrupp : r \in Range(words)}))

\* sort_values(column): every row order that is ascending in the key
\* (the order of equal keys is left to the sort implementation).
SortedOrders(table, Before(_, _)) ==
  {[i \in DOMAIN table |-> table[p[i]]] :
     p \in {q \in Perms(DOMAIN table) :
              \A i, j \in DOMAIN table : i < j => ~Before(table[q[j]], table[q[i]])}}

\* __select_lowest_scoring: the possible lowest_scores tables.
select_lowest_scoring(inflections, words_per_group) ==
  {head(t, words_per_group) :
     t \in SortedOrders(SelectSeq(inflections, LAMBDA r : MeanLtOne(r.mean_score_last_3)),
                        LAMBDA a, b : MeanBefore(a.mean_score, b.mean_score))}

Ordgrupper(table) == {table[i].ordgrupp : i \in DOMAIN table}

\* unselected_word_groups after the struggling bucket (one entry per row).
unselected_after_scoring(words, lowest_scores) ==
  SelectSeq([i \in DOMAIN words |-> words[i].ordgrupp],
            LAMBDA w : w \notin Ordgrupper(lowest_scores))

\* __select_lowest_frequency: the possible lowest_frequency tables.
select_lowest_frequency(inflections, unselected_word_groups, words_per_group) ==
  {head(t, words_per_group) :
     t \in SortedOrders(SelectSeq(inflections,
                                  LAMBDA r : r.ordgrupp \in Range(unselected_word_groups)),
                        LAMBDA a, b : a.frequency < b.frequency)}

\* Variant: the groups of the under-practiced bucket are not excluded.
unselected_keeps_frequency(words, lowest_scores, lowest_frequency) ==
  SelectSeq([i \in DOMAIN words |-> words[i].ordgrupp],
            LAMBDA w : w \notin Ordgrupper(lowest_scores))

\* unselected_word_groups after the under-practiced bucket.
unselected_after_frequency(words, lowest_scores, lowest_frequency) ==
  SelectSeq([i \in DOMAIN words |-> words[i].ordgrupp],
            LAMBDA w : w \notin Ordgrupper(lowest_scores)
                       /\ w \notin Ordgrupper(lowest_frequency))

\* list(set(lowest_scores.id) | set(lowest_frequency.id)): any order.
combine_selected(lowest_scores, lowest_frequency) ==
  Perms({lowest_scores[i].id : i \in DOMAIN lowest_scores}
        \cup {lowest_frequency[i].id : i \in DOMAIN lowest_frequency})

\* sample(frac=1).drop_duplicates(subset=["ordgrupp"]): one row of every
\* remaining group, whichever the shuffle put first; the possible id pools.
dedup_pools(remaining_words) ==
  LET gs == {r.ordgrupp : r \in Range(remaining_words)}
  IN  {Range(f) : f \in {h \in [gs -> {r.id : r \in Range(remaining_words)}] :
                           \A g \in gs : \E r \in Range(remaining_words) :
                                            r.ordgrupp = g /\ r.id = h[g]}}

\* sample_size of __add_random_words.
sample_size(n_words, selected_words, remaining_words) ==
  Min(n_words - Len(selected_words), Len(remaining_words))

\* __add_random_words: the possible results, each either the id list or
\* the ValueError pandas raises for a sample larger than the population
\* (or of negative size).
add_random_words(words, unselected_word_groups, n_words, selected_words) ==
  LET remaining_words == SelectSeq(words, LAMBDA r : r.ordgrupp \in Range(unselected_word_groups))
      n == sample_size(n_words, selected_words, remaining_words)
  IN  UNION {IF n < 0 \/ n > Cardinality(pool)
             THEN {[error |-> "ValueError", ids |-> <<>>]}
             ELSE {[error |-> "none", ids |-> selected_words \o random_words] :
                     random_words \in Arrangements(pool, n)}
             : pool \in dedup_pools(remaining_words)}

\* __select_game_words after both buckets are fixed: the union of the two
\* buckets followed by the filler draw.
finish_selection(words, n_words, inflections, lowest_scores, lowest_frequency) ==
  LET unselected == unselected_after_frequency(words, lowest_scores, lowest_frequency)
  IN  UNION {{[inflections |-> inflections,
               lowest_scores |-> lowest_scores,
               lowest_frequency |-> lowest_frequency,
               unselected_word_groups |-> unselected,
               error |-> res.error,
               ids |-> res.ids] :
                res \in add_random_words(words, unselected, n_words, selected_words)}
             : selected_words \in combine_selected(lowest_scores, lowest_frequency)}

\* __select_words / __select_game_words: every outcome of one selection.
select_words(words, n_words) ==
  LET words_per_group == n_words \div 3
  IN  UNION {UNION {UNION {
        finish_selection(words, n_words, inflections, lowest_scores, lowest_frequency)
        : lowest_frequency \in
            select_lowest_frequency(inflections,
                                    unselected_after_scoring(words, lowest_scores),
                                    words_per_group)}
        : lowest_scores \in select_lowest_scoring(inflections, words_per_group)}
        : inflections \in Inflections(words)}

(***************************************************************************)
(* Answer normalisation and word pairs.  A text is a sequence of           *)
(* one-character strings over a small alphabet.                            *)
(***************************************************************************)
LowerLetters == {"a", "b", "c", "i"}

UpperLetters == {"A", "B", "C"}

\* "U+0130" is the capital letter I with dot above and "U+0307" the
\* combining dot above, each one character of a text.
Chars == LowerLetters \cup UpperLetters \cup {"1", "_", " ", "-", "/", "!", "U+0130", "U+0307"}

\* The regular expression class [\d\w -]: digits, word characters (letters
\* of any script, digits, underscore; not combining marks), space, dash.
IsKept(c) == c \in LowerLetters \cup UpperLetters \cup {"1", "_", " ", "-", "U+0130"}

\* The regular expression class \s on what the first substitution keeps.
IsSpace(c) == c = " "

\* str.lower on one character: the lower-case form of U+0130 is the two
\* characters i and U+0307.
lower(c) ==
  CASE c = "A" -> <<"a">> [] c = "B" -> <<"b">> [] c = "C" -> <<"c">>
    [] c = "U+0130" -> <<"i", "U+0307">> [] OTHER -> <<c>>

\* re.sub("[^\d\w -]", "", text)
remove_other(text) == SelectSeq(text, IsKept)

\* re.sub("[\s]{2,}", " ", text): every run of two or more spaces becomes
\* one space (a single space is a run of one and is left alone).
RECURSIVE collapse_spaces(_)
collapse_spaces(text) ==
  IF Len(text) < 2 THEN text
  ELSE IF IsSpace(text[1]) /\ IsSpace(text[2])
       THEN collapse_spaces(Tail(text))
       ELSE <<text[1]>> \o collapse_spaces(Tail(text))

\* str.strip
RECURSIVE strip(_)
strip(text) ==
  IF text = <<>> THEN text
  ELSE IF IsSpace(text[1]) THEN strip(Tail(text))
  ELSE IF IsSpace(text[Len(text)]) THEN strip(SubSeq(text, 1, Len(text) - 1))
  ELSE text

format_text(text) ==
  strip(Flatten([i \in DOMAIN collapse_spaces(remove_other(text)) |->
                   lower(collapse_spaces(remove_other(text))[i])]))

\* str.split("/"): the segments between the delimiters, empty ones included.
RECURSIVE split(_)
split(text) ==
  IF \A i \in DOMAIN text : text[i] # "/" THEN <<text>>
  ELSE LET k == CHOOSE i \in DOMAIN text :
                  text[i] = "/" /\ \A j \in 1..(i - 1) : text[j] # "/"
       IN  <<SubSeq(text, 1, k - 1)>> \o split(SubSeq(text, k + 1, Len(text)))

\* Variant: only the first option of the answer is accepted.
first_answer_only(answer) == <<format_text(split(answer)[1])>>

\* WordPair.__split_answers
split_answers(answer) == [i \in DOMAIN split(answer) |-> format_text(split(answer)[i])]

\* WordPair.__post_init__: question and answer by call language, the
\* question cut to its first option, the answers split and normalised.
WordPair(id, en, sv, call_language) ==
  LET question == IF call_language = "en" THEN en ELSE sv
      answer == IF call_language = "en" THEN sv ELSE en
  IN  [id |-> id, en |-> en, sv |-> sv, call_language |-> call_language,
       question |-> split(question)[1],
       answer |-> answer,
       valid_answers |-> split_answers(answer)]

(***************************************************************************)
(* The vocabulary database: table ord (fixed here) and table betyg (the    *)
(* persistent mark history, a state variable).                             *)
(***************************************************************************)
Ord ==
  << [id |-> 1, ordgrupp |-> 1, typ |-> "noun", kategori |-> "food",
      engelska |-> <<"a">>, svenska |-> <<"b", "/", "C", " ", "c", "!">>],
     [id |-> 2, ordgrupp |-> 1, typ |-> "noun", kategori |-> "food",
      engelska |-> <<"a", "/", "b">>, svenska |-> <<"c">>],
     [id |-> 3, ordgrupp |-> 2, typ |-> "noun", kategori |-> "home",
      engelska |-> <<"b">>, svenska |-> <<"a", "-", "b">>],
     [id |-> 4, ordgrupp |-> 3, typ |-> "verb", kategori |-> "food",
      engelska |-> <<"c">>, svenska |-> <<"a", "/", "/", "1">>] >>

OrdIds == {Ord[i].id : i \in DOMAIN Ord}

OrdOf(id) == Ord[CHOOSE i \in DOMAIN Ord : Ord[i].id = id]

\* One mark as Answers.__add_mark builds it.
Mark(word_id, mark, direction, timestamp) ==
  [WordID |-> word_id, Mark |-> mark, TranslationDirection |-> direction,
   Timestamp |-> timestamp]

\* The rows the LEFT JOIN gives for one word: one per mark, or one with
\* NULL mark fields when the word has no mark.
joined_rows(o, marks_table) ==
  LET own == SelectSeq(marks_table, LAMBDA m : m.WordID = o.id)
  IN  IF own = <<>> THEN <<Row(o.id, o.ordgrupp, NULL, NULL)>>
      ELSE [i \in DOMAIN own |-> Row(o.id, o.ordgrupp, own[i].Mark, own[i].Timestamp)]

\* The query of __fetch_words for the chosen word types and categories.
fetch_words(marks_table, word_types, word_categories) ==
  Flatten([i \in DOMAIN Ord |->
             IF Ord[i].typ \in word_types /\ Ord[i].kategori \in word_categories
             THEN joined_rows(Ord[i], marks_table)
             ELSE <<>>])

\* Variant: the empty catalogue is not detected.
no_words_never(catalogue) == FALSE

\* The test of __fetch_words that raises NoWordsError.
no_words(catalogue) == Len(catalogue) = 0

\* __get_word_pair
get_word_pair(word_id, call_language) ==
  WordPair(word_id, OrdOf(word_id).engelska, OrdOf(word_id).svenska, call_language)

\* Variant: the shuffled round replaces the word list instead of extending it.
single_round(round_words, n_rounds) ==
  {[i \in DOMAIN round_words |-> round_words[p[i]]] : p \in Perms(DOMAIN round_words)}

\* Variant: the list is shuffled once and that order is used in every round.
one_shuffle_repeated(round_words, n_rounds) ==
  {Flatten([r \in 1..n_rounds |-> [i \in DOMAIN round_words |-> round_words[p[i]]]]) :
     p \in Perms(DOMAIN round_words)}

\* The loop of return_word_pairs: the round list is shuffled before each
\* round is appended; every result the shuffles can give.
RECURSIVE shuffled_rounds(_, _)
shuffled_rounds(round_words, n_rounds) ==
  IF n_rounds <= 0 THEN {<<>>}
  ELSE {[i \in DOMAIN round_words |-> round_words[p[i]]] \o rest :
          p \in Perms(DOMAIN round_words),
          rest \in shuffled_rounds(round_words, n_rounds - 1)}

(***************************************************************************)
(* The program state.                                                      *)
(***************************************************************************)
VARIABLES
  no_commit,      \* Game.no_commit, the --no-commit option
  betyg,          \* table betyg of the database: the persistent mark history
  now,            \* the clock read by time()
  pc,             \* where the program is: "menu", "game", "stuck", "crashed", "exited"
  n_games,        \* number of calls of Game.start so far
  settings,       \* Game.settings
  status,         \* Game.status
  game_words,     \* Game.game_words: the attributes of GameWords
  selection,      \* locals of the word selection (the pure-function specifications)
  raised,         \* the exception the last handler raised, "none" if it returned
  widgets,        \* names of the widgets in the window
  answer_entry,   \* text of the answer entry when it was last checked
  answer_indicator, \* what the answer indicator label says
  recorded,       \* history variable: every mark ever stored or recorded
  formatted,      \* the text format_text returned (the pure-function specification)
  progress        \* what the progress label shows, NoProgress when there is no label

vars == <<no_commit, betyg, now, pc, n_games, settings, status, game_words,
          selection, raised, widgets, answer_entry, answer_indicator, recorded,
          formatted, progress>>

\* Bounds of the model: the largest number of words and of rounds entered
\* in the menu, and the number of marks recorded over one run of the program.
MaxNWords == 3

MaxRounds == 2

MaxRecorded == 2

\* The longest text given to format_text in the text specification.
MaxLen == 3

DirectionChoices == {"en till sv", "sv till en"}

\* The menu submissions explored: every number of words and rounds in both
\* directions over the nouns (two word groups, three inflections), and one
\* submission whose check boxes match no word.
MenuChoices ==
  [n_words : 0..MaxNWords, n_rounds : 1..MaxRounds, word_types : {{"noun"}},
   word_categories : {{"food", "home"}}, direction : DirectionChoices]
  \cup
  [n_words : {2}, n_rounds : {1}, word_types : {{"verb"}},
   word_categories : {{"home"}}, direction : {"en till sv"}]

\* Texts typed into the answer entry.
AnswerEntries ==
  { <<"a">>, <<"B", "!">>, <<" ", "C", " ", " ", "c">> }

\* Settings() and Status() as constructed; unset fields hold a placeholder.
NewSettings ==
  [n_words |-> NULL, n_rounds |-> NULL, word_types |-> {}, word_categories |-> {},
   translation_direction |-> NULL, call_language |-> "", response_language |-> "",
   questions_per_round |-> NULL, total_questions |-> NULL,
   word_pairs |-> <<>>, current_word_pair |-> NULL]

NewStatus ==
  [incorrect_answers |-> {}, marks |-> <<>>, question_number |-> 0, retest |-> FALSE]

NewGameWords ==
  [words |-> <<>>, lowest_scores |-> <<>>, lowest_frequency |-> <<>>,
   unselected_word_groups |-> <<>>]

\* The attributes of GameWords after a selection with outcome sel.
game_words_after(catalogue, sel) ==
  [words |-> catalogue, lowest_scores |-> sel.lowest_scores,
   lowest_frequency |-> sel.lowest_frequency,
   unselected_word_groups |-> sel.unselected_word_groups]

NoSelection == [inflections |-> <<>>, ids |-> <<>>]

\* Settings.set_langauges
set_langauges(s, direction) ==
  LET call == IF direction = "en till sv" THEN "en" ELSE "sv"
      response == IF direction = "en till sv" THEN "sv" ELSE "en"
  IN  [s EXCEPT !.call_language = call, !.response_language = response,
                !.translation_direction = IF response = "sv" THEN 1 ELSE 2]

\* Settings.set_question_stats
set_question_stats(s) ==
  [s EXCEPT !.questions_per_round = Len(s.word_pairs) \div s.n_rounds,
            !.total_questions = Len(s.word_pairs)]

\* Settings.set_up_retest
settings_set_up_retest(s, incorrect_answers) ==
  set_question_stats([s EXCEPT !.word_pairs = incorrect_answers, !.n_rounds = 2])

\* Variant: the question number is not reset for the retest.
status_retest_without_reset(st) == [st EXCEPT !.retest = TRUE]

\* Status.set_up_retest
status_set_up_retest(st) == [st EXCEPT !.retest = TRUE, !.question_number = 0]

\* Settings.set_current_word_pair (the caller checks the index is in range)
set_current_word_pair(s, question_number) ==
  [s EXCEPT !.current_word_pair = s.word_pairs[question_number + 1]]

\* Variant: the question number in the round is counted from 0.
question_number_in_round_from_zero(st, questions_per_round) ==
  st.question_number % questions_per_round

\* Status.question_number_in_round
question_number_in_round(st, questions_per_round) ==
  (st.question_number % questions_per_round) + 1

\* Status.current_round
current_round(st, questions_per_round) ==
  (st.question_number \div questions_per_round) + 1

\* No progress label is on the window.
NoProgress ==
  [current_question |-> NULL, questions_per_round |-> NULL,
   current_round |-> NULL, n_rounds |-> NULL]

\* How Window.display_progress ends: the divisions by questions_per_round
\* raise ZeroDivisionError when it is 0.
progress_outcome(s) ==
  IF s.questions_per_round = 0 THEN "ZeroDivisionError" ELSE "none"

\* Window.display_progress: the numbers written on the progress label; no
\* label is written when the division raises.
display_progress(st, s) ==
  IF s.questions_per_round = 0 THEN NoProgress ELSE
  [current_question |-> question_number_in_round(st, s.questions_per_round),
   questions_per_round |-> s.questions_per_round,
   current_round |-> current_round(st, s.questions_per_round),
   n_rounds |-> IF st.retest THEN 2 ELSE s.n_rounds]

\* Variant: the table is replaced by the marks (if_exists="replace").
replace_marks_in_database(table, marks) == marks

\* Status.commit_marks_to_database: the marks appended to table betyg.
commit_marks_to_database(table, marks) == table \o marks

\* Variant: the no_commit test is inverted.
commit_marks_inverted(table, marks) ==
  IF no_commit THEN commit_marks_to_database(table, marks) ELSE table

\* Variant: the marks are not written.
commit_marks_dropped(table, marks) == table

\* Variant: the marks are committed whatever the option says.
commit_marks_unconditional(table, marks) == commit_marks_to_database(table, marks)

\* Game.commit_marks
commit_marks(table, marks) ==
  IF ~no_commit THEN commit_marks_to_database(table, marks) ELSE table

\* Variant: only wrong answers are recorded.
add_mark_when_wrong(st, word_id, mark, direction, timestamp) ==
  IF ~st.retest /\ mark = 0
  THEN [st EXCEPT !.marks = Append(@, Mark(word_id, mark, direction, timestamp))]
  ELSE st

\* Variant: the mark is added during a retest as well.
add_mark_always(st, word_id, mark, direction, timestamp) ==
  [st EXCEPT !.marks = Append(@, Mark(word_id, mark, direction, timestamp))]

\* Answers.__add_mark
add_mark(st, word_id, mark, direction, timestamp) ==
  IF ~st.retest
  THEN [st EXCEPT !.marks = Append(@, Mark(word_id, mark, direction, timestamp))]
  ELSE st

\* Variant: a wrong answer during a retest takes the word out of the set.
record_incorrect_or_discard(st, word_pair) ==
  IF ~st.retest
  THEN [st EXCEPT !.incorrect_answers = @ \cup {word_pair}]
  ELSE [st EXCEPT !.incorrect_answers = @ \ {word_pair}]

\* Variant: the set is replaced by the word instead of extended with it.
record_incorrect_replace(st, word_pair) ==
  IF ~st.retest
  THEN [st EXCEPT !.incorrect_answers = {word_pair}]
  ELSE st

\* Answers.__record_incorrect_answer
record_incorrect_answer(st, word_pair) ==
  IF ~st.retest
  THEN [st EXCEPT !.incorrect_answers = @ \cup {word_pair}]
  ELSE st

\* Variant: the retest button is offered whenever there are incorrect answers.
move_to_next_always_retest(st, s) ==
  IF st.question_number = s.total_questions
  THEN (IF ~st.retest THEN {"showSummary"} ELSE {})
       \cup (IF st.incorrect_answers # {} THEN {"createRetest"} ELSE {})
       \cup {"startNewGame", "quitGame"}
  ELSE {"nextButton"}

\* The widgets Questions.move_to_next adds after the question number moved on.
move_to_next_widgets(st, s) ==
  IF st.question_number = s.total_questions
  THEN (IF ~st.retest
        THEN {"showSummary"} \cup
             (IF st.incorrect_answers # {} THEN {"createRetest"} ELSE {})
        ELSE {})
       \cup {"startNewGame", "quitGame"}
  ELSE {"nextButton"}

\* Variant: the list of incorrect answers is not doubled.
retest_word_lists_once(incorrect_answers) == Perms(incorrect_answers)

\* list(incorrect_answers) * 2: the set in some iteration order, twice.
retest_word_lists(incorrect_answers) ==
  {p \o p : p \in Perms(incorrect_answers)}

(***************************************************************************)
(* Construction: Game.__init__ runs start(), which shows the menu and      *)
(* waits for the submitted values.                                         *)
(***************************************************************************)
Init ==
  /\ no_commit \in BOOLEAN
  /\ betyg = <<>>
  /\ now = 1
  /\ pc = "menu"
  /\ n_games = 1
  /\ settings = NewSettings
  /\ status = NewStatus
  /\ game_words = NewGameWords
  /\ selection = NoSelection
  /\ raised = "none"
  /\ widgets = {"menu"}
  /\ answer_entry = <<>>
  /\ answer_indicator = "none"
  /\ recorded = <<>>
  /\ formatted = <<>>
  /\ progress = NoProgress

\* Questions.initialise after the menu values were accepted: the first
\* question is set, or set_current_word_pair raises IndexError on an empty
\* word list (fatal in the constructor, reported inside a callback).
Initialise(s) ==
  IF Len(s.word_pairs) = 0
  THEN /\ settings' = set_question_stats(s)
       /\ raised' = "IndexError"
       /\ pc' = IF n_games = 1 THEN "crashed" ELSE "stuck"
       /\ widgets' = {}
       /\ progress' = NoProgress
  ELSE /\ settings' = set_current_word_pair(set_question_stats(s), status.question_number)
       /\ raised' = progress_outcome(set_question_stats(s))
       /\ pc' = "game"
       /\ widgets' = {"submitButton"}
       /\ progress' = display_progress(status, set_question_stats(s))

\* Menu._get_values with __try_get_words, and the rest of Game.start once
\* the values are set.
SubmitValues ==
  /\ pc = "menu"
  /\ \E menu \in MenuChoices :
       LET n_words == menu.n_words
           n_rounds == menu.n_rounds
           s1 == set_langauges([settings EXCEPT !.n_rounds = n_rounds,
                                                !.n_words = n_words,
                                                !.word_types = menu.word_types,
                                                !.word_categories = menu.word_categories],
                               menu.direction)
           catalogue == fetch_words(betyg, menu.word_types, menu.word_categories)
       IN  IF no_words(catalogue)
           THEN \* NoWordsError: the error label is shown, the menu stays
                /\ game_words' = [NewGameWords EXCEPT !.words = catalogue]
                /\ raised' = "NoWordsError"
                /\ settings' = s1
                /\ widgets' = widgets \cup {"no_word_error"}
                /\ UNCHANGED <<pc, progress>>
           ELSE \E sel \in select_words(catalogue, n_words) :
                  /\ game_words' = game_words_after(catalogue, sel)
                  /\ IF sel.error # "none"
                     THEN \* the exception leaves the callback, the menu stays
                          /\ settings' = s1
                          /\ raised' = sel.error
                          /\ UNCHANGED <<widgets, pc, progress>>
                     ELSE \E word_pairs \in
                               shuffled_rounds([i \in DOMAIN sel.ids |->
                                                  get_word_pair(sel.ids[i], s1.call_language)],
                                               n_rounds) :
                            /\ Len(recorded) + Len(word_pairs) <= MaxRecorded
                            /\ Initialise([s1 EXCEPT !.word_pairs = word_pairs])
  /\ answer_entry' = <<>>
  /\ answer_indicator' = "none"
  /\ UNCHANGED <<no_commit, betyg, now, n_games, status, selection, recorded, formatted>>

\* Answers.check_answer, bound to the submit button and the return key.
CheckAnswer ==
  /\ "submitButton" \in widgets
  /\ \E text \in AnswerEntries :
       LET word_pair == settings.current_word_pair
           correct == format_text(text) \in Range(word_pair.valid_answers)
           marked == add_mark(status, word_pair.id, IF correct THEN 1 ELSE 0,
                              settings.translation_direction, now)
           noted == IF correct THEN marked ELSE record_incorrect_answer(marked, word_pair)
           moved == [noted EXCEPT !.question_number = @ + 1]
       IN  /\ answer_entry' = text
           /\ answer_indicator' = IF correct THEN "correct" ELSE "incorrect"
           /\ status' = moved
           /\ now' = IF Len(marked.marks) > Len(status.marks) THEN now + 1 ELSE now
           /\ recorded' = recorded \o SubSeq(marked.marks, Len(status.marks) + 1,
                                             Len(marked.marks))
           /\ widgets' = (widgets \ {"submitButton"}) \cup move_to_next_widgets(moved, settings)
  /\ raised' = "none"
  /\ UNCHANGED <<no_commit, betyg, pc, n_games, settings, game_words, selection, formatted,
                 progress>>

\* Questions.set_question as the command of the next-question button.
NextQuestion ==
  /\ "nextButton" \in widgets
  /\ settings' = set_current_word_pair(settings, status.question_number)
  /\ widgets' = {"submitButton"}
  /\ progress' = display_progress(status, settings)
  /\ answer_entry' = <<>>
  /\ answer_indicator' = "none"
  /\ raised' = progress_outcome(settings)
  /\ UNCHANGED <<no_commit, betyg, now, pc, n_games, status, game_words, selection,
                 recorded, formatted>>

\* The command of the summary button: only the listed widgets are kept.
ShowSummary ==
  /\ "showSummary" \in widgets
  /\ "summary" \notin widgets
  /\ widgets' = (widgets \cap {"showSummary", "quitGame", "startNewGame", "createRetest"})
                \cup {"summary"}
  /\ progress' = NoProgress
  /\ answer_entry' = <<>>
  /\ answer_indicator' = "none"
  /\ raised' = "none"
  /\ UNCHANGED <<no_commit, betyg, now, pc, n_games, settings, status, game_words,
                 selection, recorded, formatted>>

\* Questions.start_retest, the command of the retest button.
StartRetest ==
  /\ "createRetest" \in widgets
  /\ \E word_pairs \in retest_word_lists(status.incorrect_answers) :
       /\ status' = status_set_up_retest(status)
       /\ settings' = set_current_word_pair(settings_set_up_retest(settings, word_pairs), 0)
       /\ progress' = display_progress(status_set_up_retest(status),
                                       settings_set_up_retest(settings, word_pairs))
       /\ raised' = progress_outcome(settings_set_up_retest(settings, word_pairs))
  /\ widgets' = {"submitButton"}
  /\ answer_entry' = <<>>
  /\ answer_indicator' = "none"
  /\ UNCHANGED <<no_commit, betyg, now, pc, n_games, game_words, selection, recorded, formatted>>

\* How a call of Game.commit_marks can end: nothing is attempted under
\* no_commit; otherwise the batch is appended or the storage raises and
\* nothing is stored.
commit_outcomes == IF no_commit THEN {"skipped"} ELSE {"committed", "failed"}

\* Buttons.__start_new_game: the marks are committed, then Game.start
\* builds fresh settings, status and words and shows the menu.  When the
\* commit raises, the rest of the callback is not run.
StartNewGame ==
  /\ "startNewGame" \in widgets
  /\ \E outcome \in commit_outcomes :
       IF outcome = "failed"
       THEN /\ raised' = "DatabaseError"
            /\ UNCHANGED <<betyg, settings, status, game_words, widgets, pc, n_games,
                           answer_entry, answer_indicator, progress>>
       ELSE /\ betyg' = commit_marks(betyg, status.marks)
            /\ settings' = NewSettings
            /\ status' = NewStatus
            /\ game_words' = NewGameWords
            /\ widgets' = {"menu"}
            /\ pc' = "menu"
            /\ n_games' = n_games + 1
            /\ answer_entry' = <<>>
            /\ answer_indicator' = "none"
            /\ raised' = "none"
            /\ progress' = NoProgress
  /\ UNCHANGED <<no_commit, now, selection, recorded, formatted>>

\* The quit button or closing the window: the main loop returns and main
\* commits the marks of the current status.  When the commit raises, the
\* exception ends the program.
Quit ==
  /\ pc \in {"menu", "game", "stuck"}
  /\ \E outcome \in commit_outcomes :
       IF outcome = "failed"
       THEN /\ raised' = "DatabaseError"
            /\ pc' = "crashed"
            /\ UNCHANGED betyg
       ELSE /\ betyg' = commit_marks(betyg, status.marks)
            /\ pc' = "exited"
            /\ raised' = "none"
  /\ widgets' = {}
  /\ progress' = NoProgress
  /\ UNCHANGED <<no_commit, now, n_games, settings, status, game_words, selection,
                 answer_entry, answer_indicator, recorded, formatted>>

Next ==
  \/ SubmitValues
  \/ CheckAnswer
  \/ NextQuestion
  \/ ShowSummary
  \/ StartRetest
  \/ StartNewGame
  \/ Quit

Spec == Init /\ [][Next]_vars

(***************************************************************************)
(* The word selection as a pure function: the catalogue and n_words are    *)
(* drawn at the start and one step applies __fetch_words and               *)
(* __select_words to them.                                                 *)
(***************************************************************************)
\* Mark histories an inflection may have, oldest mark first.
HistoryChoices ==
  {<<>>, <<0>>, <<1>>, <<0, 1, 1, 1>>, <<1, 0, 0, 0>>, <<0, 0, 0, 0, 1>>}

\* Table betyg holding history h[id] of every word, stamped in table order.
RECURSIVE history_table(_, _, _)
history_table(h, ids, ts) ==
  IF ids = <<>> THEN <<>>
  ELSE [i \in DOMAIN h[Head(ids)] |-> Mark(Head(ids), h[Head(ids)][i], 1, ts + i)]
       \o history_table(h, Tail(ids), ts + Len(h[Head(ids)]))

\* The rows of a table last to first.
Reverse(s) == [i \in DOMAIN s |-> s[Len(s) + 1 - i]]

\* The query has no ORDER BY: the marks reach the selector oldest first or
\* newest first.
RowOrders == {"oldest first", "newest first"}

\* Check-box combinations: three groups, two groups, one group of two
\* inflections, one group of one inflection, no word at all.
SelFilters ==
  { [word_types |-> {"noun", "verb"}, word_categories |-> {"food", "home"}],
    [word_types |-> {"noun"}, word_categories |-> {"food", "home"}],
    [word_types |-> {"noun"}, word_categories |-> {"food"}],
    [word_types |-> {"verb"}, word_categories |-> {"food"}],
    [word_types |-> {"verb"}, word_categories |-> {"home"}] }

InitSel ==
  /\ no_commit = FALSE
  /\ \E h \in [OrdIds -> HistoryChoices], order \in RowOrders :
       betyg = IF order = "oldest first"
               THEN history_table(h, SortedSeq(OrdIds), 0)
               ELSE Reverse(history_table(h, SortedSeq(OrdIds), 0))
  /\ now = Len(betyg) + 1
  /\ pc = "select"
  /\ n_games = 1
  /\ \E n_words \in (-1)..(2 * MaxNWords), f \in SelFilters :
       settings = [NewSettings EXCEPT !.n_words = n_words,
                                      !.word_types = f.word_types,
                                      !.word_categories = f.word_categories]
  /\ status = NewStatus
  /\ game_words = NewGameWords
  /\ selection = NoSelection
  /\ raised = "none"
  /\ widgets = {}
  /\ answer_entry = <<>>
  /\ answer_indicator = "none"
  /\ recorded = betyg
  /\ formatted = <<>>
  /\ progress = NoProgress

\* __fetch_words followed by __select_words (return_word_pairs, lines 341-342).
SelectWords ==
  /\ pc = "select"
  /\ pc' = "selected"
  /\ LET catalogue == fetch_words(betyg, settings.word_types, settings.word_categories)
     IN  IF no_words(catalogue)
         THEN /\ game_words' = [NewGameWords EXCEPT !.words = catalogue]
              /\ selection' = NoSelection
              /\ raised' = "NoWordsError"
         ELSE \E sel \in select_words(catalogue, settings.n_words) :
                /\ game_words' = game_words_after(catalogue, sel)
                /\ selection' = [inflections |-> sel.inflections, ids |-> sel.ids]
                /\ raised' = sel.error
  /\ UNCHANGED <<no_commit, betyg, now, n_games, settings, status, widgets,
                 answer_entry, answer_indicator, recorded, formatted, progress>>

NextSel == SelectWords

SpecSel == InitSel /\ [][NextSel]_vars

(***************************************************************************)
(* The round expansion as a pure function: the selected ids, the number    *)
(* of rounds and the call language are drawn at the start and one step     *)
(* builds the word list.                                                   *)
(***************************************************************************)
InitExp ==
  /\ no_commit = FALSE
  /\ betyg = <<>>
  /\ now = 1
  /\ pc = "expand"
  /\ n_games = 1
  /\ \E n_rounds \in 1..MaxRounds, direction \in DirectionChoices :
       settings = set_langauges([NewSettings EXCEPT !.n_rounds = n_rounds], direction)
  /\ status = NewStatus
  /\ game_words = NewGameWords
  /\ \E k \in 0..MaxNWords : \E ids \in Arrangements(OrdIds, k) :
       selection = [inflections |-> <<>>, ids |-> ids]
  /\ raised = "none"
  /\ widgets = {}
  /\ answer_entry = <<>>
  /\ answer_indicator = "none"
  /\ recorded = <<>>
  /\ formatted = <<>>
  /\ progress = NoProgress

\* return_word_pairs from line 343 on, and Settings.set_question_stats.
ExpandRounds ==
  /\ pc = "expand"
  /\ pc' = "expanded"
  /\ \E word_pairs \in
          shuffled_rounds([i \in DOMAIN selection.ids |->
                             get_word_pair(selection.ids[i], settings.call_language)],
                          settings.n_rounds) :
       settings' = set_question_stats([settings EXCEPT !.word_pairs = word_pairs])
  /\ UNCHANGED <<no_commit, betyg, now, n_games, status, game_words, selection, raised,
                 widgets, answer_entry, answer_indicator, recorded, formatted, progress>>

NextExp == ExpandRounds

SpecExp == InitExp /\ [][NextExp]_vars

(***************************************************************************)
(* Answer normalisation as a pure function: a text is drawn at the start,  *)
(* one step applies format_text to it and a second step applies            *)
(* format_text to the result.                                              *)
(***************************************************************************)
Texts == UNION {[1..n -> Chars] : n \in 0..MaxLen}

InitFmt ==
  /\ no_commit = FALSE
  /\ betyg = <<>>
  /\ now = 1
  /\ pc = "format"
  /\ n_games = 1
  /\ settings = NewSettings
  /\ status = NewStatus
  /\ game_words = NewGameWords
  /\ selection = NoSelection
  /\ raised = "none"
  /\ widgets = {}
  /\ answer_entry \in Texts
  /\ answer_indicator = "none"
  /\ recorded = <<>>
  /\ formatted = <<>>
  /\ progress = NoProgress

\* format_text applied to the text of the answer entry.
FormatText ==
  /\ pc = "format"
  /\ pc' = "formatted"
  /\ formatted' = format_text(answer_entry)
  /\ UNCHANGED <<no_commit, betyg, now, n_games, settings, status, game_words, selection,
                 raised, widgets, answer_entry, answer_indicator, recorded, progress>>

\* format_text applied to a text it returned.
FormatAgain ==
  /\ pc = "formatted"
  /\ pc' = "reformatted"
  /\ formatted' = format_text(formatted)
  /\ UNCHANGED <<no_commit, betyg, now, n_games, settings, status, game_words, selection,
                 raised, widgets, answer_entry, answer_indicator, recorded, progress>>

NextFmt ==
  \/ FormatText
  \/ FormatAgain

SpecFmt == InitFmt /\ [][NextFmt]_vars

(***************************************************************************)
(* Properties.                                                             *)
(***************************************************************************)
\* The word group of an inflection id, read from the fetched catalogue.
GroupInCatalogue(id) ==
  (CHOOSE r \in Range(game_words.words) : r.id = id).ordgrupp

\* The number of positions of a sequence holding x.
Occurrences(seq, x) == Cardinality({i \in DOMAIN seq : seq[i] = x})

\* C1: the ids the selector returns never hold two inflections of the
\* same word group (and so no id twice).
C1_NoDuplicateGroup ==
  (pc = "selected" /\ raised = "none") =>
    \A i, j \in DOMAIN selection.ids :
      i # j => GroupInCatalogue(selection.ids[i]) # GroupInCatalogue(selection.ids[j])

\* A selection of three ids from a catalogue in which one group has two
\* inflections.
C1_Witness ==
  /\ pc = "selected" /\ raised = "none"
  /\ Len(selection.ids) = 3
  /\ \E r1, r2 \in Range(game_words.words) : r1.id # r2.id /\ r1.ordgrupp = r2.ordgrupp

\* C2: a checked answer appends exactly one mark when retest is false and
\* none when it is true, and no step that ends in a retest changes the
\* pending marks.
C2_MarksOnlyOutsideRetest ==
  [][ /\ (status'.question_number = status.question_number + 1) =>
           IF ~status.retest
           THEN /\ Len(status'.marks) = Len(status.marks) + 1
                /\ SubSeq(status'.marks, 1, Len(status.marks)) = status.marks
           ELSE status'.marks = status.marks
      /\ status'.retest => status'.marks = status.marks ]_vars

\* An answer has been checked during a retest.
C2_Witness ==
  status.retest /\ status.question_number >= 1 /\ answer_indicator # "none"

\* C3: a retest can be started only when the primary pass is finished and
\* the incorrect set is not empty; never during or after a retest.
C3_RetestOnlyAfterPrimaryPass ==
  (ENABLED StartRetest) =>
    /\ ~status.retest
    /\ status.question_number = settings.total_questions
    /\ status.incorrect_answers # {}

\* The retest pass is complete and its last answer was wrong.
C3_Witness ==
  /\ status.retest
  /\ status.question_number = settings.total_questions
  /\ answer_indicator = "incorrect"

\* C4: entering the retest sets the question number to 0 and the word list
\* to the incorrect set in two rounds: every incorrect word twice, nothing
\* else, with the question statistics updated to match.
C4_RetestSetUp ==
  [][ (~status.retest /\ status'.retest) =>
        /\ status'.question_number = 0
        /\ Len(settings'.word_pairs) = 2 * Cardinality(status.incorrect_answers)
        /\ settings'.total_questions = Len(settings'.word_pairs)
        /\ settings'.questions_per_round = Cardinality(status.incorrect_answers)
        /\ Range(settings'.word_pairs) \subseteq status.incorrect_answers
        /\ \A w \in status.incorrect_answers : Occurrences(settings'.word_pairs, w) = 2 ]_vars

\* A retest over two incorrectly answered words has just been entered.
C4_Witness ==
  /\ status.retest /\ status.question_number = 0
  /\ Cardinality(status.incorrect_answers) = 2
  /\ Len(settings.word_pairs) = 4

\* C5: for a catalogue that is not empty the selection completes without
\* an error, whatever n_words is.
C5_SelectionCompletes ==
  (pc = "selected" /\ ~no_words(game_words.words)) => raised = "none"

\* The words a menu submission can find: those matching the check boxes.
EligibleWords(s) ==
  {i \in DOMAIN Ord : Ord[i].typ \in s.word_types /\ Ord[i].kategori \in s.word_categories}

\* C6: submitting menu values that match no word raises NoWordsError and
\* leaves the program at the menu with an untouched status: no question,
\* no word list, no submit button.
C6_NoWordsStaysAtMenu ==
  [][ (pc = "menu" /\ pc' \notin {"exited", "crashed"} /\ EligibleWords(settings') = {}) =>
        /\ raised' = "NoWordsError"
        /\ pc' = "menu"
        /\ status' = NewStatus
        /\ settings'.word_pairs = <<>>
        /\ "submitButton" \notin widgets'
        /\ "no_word_error" \in widgets' ]_vars

\* The menu after a submission that found no word.
C6_Witness ==
  /\ pc = "menu" /\ raised = "NoWordsError"
  /\ settings.word_types # {} /\ EligibleWords(settings) = {}

\* C7: the expanded word list has len(word_ids) * n_rounds entries.
C7_ExpandedLength ==
  pc = "expanded" =>
    /\ Len(settings.word_pairs) = Len(selection.ids) * settings.n_rounds
    /\ settings.total_questions = Len(selection.ids) * settings.n_rounds

\* Three words expanded over two rounds.
C7_Witness ==
  pc = "expanded" /\ Len(selection.ids) = 3 /\ settings.n_rounds = 2

\* The options of an answer text: its maximal pieces free of "/".
Variants(answer) ==
  {SubSeq(answer, b[1], b[2]) :
     b \in {c \in (1..(Len(answer) + 1)) \X (0..Len(answer)) :
              /\ c[2] >= c[1] - 1
              /\ (c[1] = 1 \/ answer[c[1] - 1] = "/")
              /\ (c[2] = Len(answer) \/ answer[c[2] + 1] = "/")
              /\ \A k \in c[1]..c[2] : answer[k] # "/"}}

\* The submission agrees with some option of the current word's answer
\* once both are normalised.
MatchesAVariant ==
  \E v \in Variants(settings.current_word_pair.answer) :
    format_text(v) = format_text(answer_entry)

\* C8: a checked answer is judged correct exactly when its normalised form
\* equals the normalised form of one of the "/"-separated options of the
\* answer; in the primary pass the mark recorded for it is 1 then and 0
\* otherwise.
C8_CorrectIffMatchesVariant ==
  answer_indicator # "none" =>
    /\ (answer_indicator = "correct") <=> MatchesAVariant
    /\ ~status.retest =>
         /\ status.marks # <<>>
         /\ status.marks[Len(status.marks)].WordID = settings.current_word_pair.id
         /\ status.marks[Len(status.marks)].Mark = (IF MatchesAVariant THEN 1 ELSE 0)

\* An answer judged correct that matches an option other than the first.
C8_Witness ==
  /\ answer_indicator = "correct"
  /\ ~status.retest
  /\ status.marks[Len(status.marks)].Mark = 1
  /\ format_text(answer_entry) # format_text(split(settings.current_word_pair.answer)[1])

\* The ids of the words of the current word list.
WordListIds == {settings.word_pairs[i].id : i \in DOMAIN settings.word_pairs}

\* C9: the incorrect set holds a word at most once however often it was
\* answered wrongly, so it is never larger than the set of selected words,
\* and no step taken during a retest changes it.
C9_IncorrectSetSemantics ==
  /\ [](/\ \A a, b \in status.incorrect_answers : a.id = b.id => a = b
        /\ Cardinality(status.incorrect_answers) <= Cardinality(WordListIds))
  /\ [][ (status.retest /\ status'.retest) =>
           status'.incorrect_answers = status.incorrect_answers ]_vars

\* One word asked in two rounds and answered wrongly both times: two marks
\* of 0 for it, one entry in the set.
C9_Witness ==
  /\ ~status.retest
  /\ Len(status.marks) = 2
  /\ status.marks[1].WordID = status.marks[2].WordID
  /\ status.marks[1].Mark = 0 /\ status.marks[2].Mark = 0
  /\ Cardinality(status.incorrect_answers) = 1

\* C10: with committing enabled the stored history followed by the pending
\* marks is exactly the sequence of all marks recorded so far (after the
\* exit the stored history alone is), and the history only ever changes by
\* the pending marks being appended when a new game starts or the program
\* quits.
C10_EveryMarkCommittedOnce ==
  /\ [](~no_commit =>
          IF pc = "exited" THEN betyg = recorded
          ELSE betyg \o status.marks = recorded)
  /\ [][ (~no_commit /\ betyg' # betyg) =>
           /\ betyg' = betyg \o status.marks
           /\ \/ pc' = "exited"
              \/ pc' = "menu" /\ n_games' = n_games + 1 ]_vars

\* A second session is being played after the marks of the first were
\* committed.
C10_Witness ==
  /\ ~no_commit
  /\ n_games = 2
  /\ Len(betyg) >= 1
  /\ Len(status.marks) >= 1

\* C11: with the no-commit option no step changes the stored mark history,
\* so it stays as it was when the program started (empty here).
C11_NoCommitKeepsHistory ==
  /\ [](no_commit => betyg = <<>>)
  /\ [][ no_commit => betyg' = betyg ]_vars

\* The program has quit under no-commit after a new game was started with
\* marks pending and further marks were recorded in the second session.
C11_Witness ==
  /\ no_commit
  /\ pc = "exited"
  /\ n_games = 2
  /\ Len(recorded) = 2
  /\ Len(status.marks) = 1

\* C12: a selection asked for a negative number of words fails before any
\* sampling or bucket work: an error is raised, no inflection has been
\* drawn, no bucket has been filled and no id is returned.
C12_NegativeFailsFast ==
  (pc = "selected" /\ settings.n_words < 0) =>
    /\ raised # "none"
    /\ selection = NoSelection
    /\ game_words.lowest_scores = <<>>
    /\ game_words.lowest_frequency = <<>>

\* The sort key (mean_last_3, mean) of a statistics row: a is before b.
KeyBefore(a, b) ==
  \/ MeanLt(a.mean_score_last_3, b.mean_score_last_3)
  \/ /\ ~MeanLt(b.mean_score_last_3, a.mean_score_last_3)
     /\ MeanLt(a.mean_score, b.mean_score)

\* The statistics rows with mean_last_3 < 1.
Struggling == SelectSeq(selection.inflections, LAMBDA r : MeanLtOne(r.mean_score_last_3))

\* C13: the struggling bucket is the first words_per_group rows of the
\* struggling statistics in ascending (mean_last_3, mean) order: it has
\* min(words_per_group, number of struggling rows) rows, all struggling, in
\* non-decreasing key order, and no struggling row left out has a strictly
\* smaller key than a row taken.
C13_StrugglingBucketOrder ==
  (pc = "selected" /\ settings.n_words >= 0 /\ ~no_words(game_words.words)) =>
    LET bucket == game_words.lowest_scores
    IN  /\ Len(bucket) = Min(settings.n_words \div 3, Len(Struggling))
        /\ Range(bucket) \subseteq Range(Struggling)
        /\ \A i, j \in DOMAIN bucket : i < j => ~KeyBefore(bucket[j], bucket[i])
        /\ \A out \in Range(Struggling) \ Range(bucket) :
             \A in \in Range(bucket) : ~KeyBefore(out, in)

\* The number of marks behind a statistics row (0: no history).
Count(r) == r.mean_score.n

\* The statistics rows whose group the struggling bucket did not claim.
Unclaimed ==
  SelectSeq(selection.inflections,
            LAMBDA r : r.ordgrupp \notin Ordgrupper(game_words.lowest_scores))

\* C14: every row of the struggling bucket has a history and a mean over
\* its last three marks below 1, so a row without history or with
\* mean_last_3 = 1 is never in it; a row without history is a candidate of
\* the under-practiced bucket and is ranked first there: when it is left
\* out, the bucket is full of rows that have no history either.
C14_NoHistoryNotStruggling ==
  (pc = "selected" /\ settings.n_words >= 0 /\ ~no_words(game_words.words)) =>
    /\ \A r \in Range(game_words.lowest_scores) :
         /\ Count(r) > 0
         /\ r.mean_score_last_3.n > 0
         /\ r.mean_score_last_3.s < r.mean_score_last_3.n
    /\ \A r \in Range(selection.inflections) :
         Count(r) = 0 =>
           /\ r \in Range(Unclaimed)
           /\ r \notin Range(game_words.lowest_frequency) =>
                /\ Len(game_words.lowest_frequency) = settings.n_words \div 3
                /\ \A b \in Range(game_words.lowest_frequency) : Count(b) = 0

\* C15: the under-practiced bucket holds at most words_per_group rows, all
\* of groups the struggling bucket did not claim, and they are the least
\* answered: no unclaimed row left out has been answered strictly fewer
\* times than a row taken.
C15_UnderPracticedBucket ==
  (pc = "selected" /\ settings.n_words >= 0 /\ ~no_words(game_words.words)) =>
    LET bucket == game_words.lowest_frequency
    IN  /\ Len(bucket) <= settings.n_words \div 3
        /\ Range(bucket) \subseteq Range(Unclaimed)
        /\ \A out \in Range(Unclaimed) \ Range(bucket) :
             \A in \in Range(bucket) : ~(Count(out) < Count(in))

\* C16: the statistics table has exactly one row for every word group of
\* the catalogue and none for any other group, and the id of a row is an
\* inflection of the row's group.
C16_OneRowPerGroup ==
  (pc = "selected" /\ ~no_words(game_words.words)) =>
    LET table == selection.inflections
    IN  /\ \A i, j \in DOMAIN table : i # j => table[i].ordgrupp # table[j].ordgrupp
        /\ Ordgrupper(table) = {r.ordgrupp : r \in Range(game_words.words)}
        /\ \A r \in Range(table) :
             \E w \in Range(game_words.words) : w.id = r.id /\ w.ordgrupp = r.ordgrupp

\* Statistics of three groups drawn from a catalogue of more than four
\* rows, the second inflection of the first group having been drawn.
C16_Witness ==
  /\ pc = "selected"
  /\ Len(game_words.words) > 4
  /\ Len(selection.inflections) = 3
  /\ selection.inflections[1].id = 2

\* C19: when the append to storage has failed with marks pending, no
\* recorded mark is lost (the stored history followed by the pending marks
\* is still everything recorded) and the commit can be tried again, by
\* starting a new game or by quitting.
C19_FailedCommitKeepsMarks ==
  (raised = "DatabaseError" /\ status.marks # <<>>) =>
    /\ betyg \o status.marks = recorded
    /\ (ENABLED StartNewGame) \/ (ENABLED Quit)

\* The current pass is complete and nothing is left to ask: the primary
\* pass without an incorrect answer, or the retest pass.
Finished ==
  /\ pc = "game"
  /\ status.question_number = settings.total_questions
  /\ status.retest \/ status.incorrect_answers = {}

\* C17: a pass is over after exactly as many checked answers as the word
\* list is long.  The list of the primary pass holds every selected word
\* once per round and that of the retest every incorrect word twice; each
\* checked answer moves the question number on by one, nothing else
\* changes it within a pass, and one mark is pending per answer of the
\* primary pass.  A question is on (to answer or to move on to) exactly
\* while the question number is below the length of the list; when the
\* pass is finished no answer can be checked, no question set and no
\* retest started.
C17_PassesTerminate ==
  /\ [](pc = "game" =>
          /\ settings.total_questions = Len(settings.word_pairs)
          /\ status.question_number <= settings.total_questions
          /\ settings.total_questions = Cardinality(WordListIds) * settings.n_rounds
          /\ status.retest =>
               settings.total_questions = 2 * Cardinality(status.incorrect_answers)
          /\ ~status.retest => Len(status.marks) = status.question_number
          /\ ("submitButton" \in widgets \/ "nextButton" \in widgets)
               <=> status.question_number < settings.total_questions
          /\ Finished =>
               ~(ENABLED CheckAnswer) /\ ~(ENABLED NextQuestion) /\ ~(ENABLED StartRetest))
  /\ [][ (pc = "game" /\ pc' = "game" /\ status'.question_number # status.question_number) =>
           \/ /\ status'.question_number = status.question_number + 1
              /\ status'.retest = status.retest
              /\ settings'.word_pairs = settings.word_pairs
              /\ answer_indicator' # "none"
           \/ /\ status'.question_number = 0
              /\ ~status.retest /\ status'.retest ]_vars

\* A retest over two incorrect words is finished after its four answers.
C17_Witness ==
  /\ Finished
  /\ status.retest
  /\ status.question_number = 4
  /\ "startNewGame" \in widgets
  /\ "createRetest" \notin widgets

\* C18: formatting a formatted text gives the same text.
C18_FormatIdempotent ==
  pc = "reformatted" => formatted = format_text(answer_entry)

\* The ids of the words with a pending mark of 0.
MarkedWrong == {status.marks[i].WordID : i \in {j \in DOMAIN status.marks : status.marks[j].Mark = 0}}

\* C20: in the primary pass the incorrect set holds exactly the words with
\* at least one pending mark of 0, each as the word pair it was asked as.
C20_IncorrectSetIsMarkedWrong ==
  ~status.retest =>
    /\ {w.id : w \in status.incorrect_answers} = MarkedWrong
    /\ status.incorrect_answers \subseteq Range(settings.word_pairs)

\* A word answered wrongly in the first round and correctly in the second
\* is still in the incorrect set.
C20_Witness ==
  /\ ~status.retest
  /\ Len(status.marks) = 2
  /\ status.marks[1].WordID = status.marks[2].WordID
  /\ status.marks[1].Mark = 0 /\ status.marks[2].Mark = 1
  /\ {w.id : w \in status.incorrect_answers} = {status.marks[1].WordID}

\* The two rounds of a retest word list.
FirstRetestRound(word_pairs) == SubSeq(word_pairs, 1, Len(word_pairs) \div 2)

SecondRetestRound(word_pairs) ==
  SubSeq(word_pairs, (Len(word_pairs) \div 2) + 1, Len(word_pairs))

\* C21: whenever a retest over at least two incorrect words can be
\* started, it can be started with a second round whose order differs from
\* that of the first round.
C21_RetestRoundsReshuffled ==
  ("createRetest" \in widgets /\ Cardinality(status.incorrect_answers) >= 2) =>
    ENABLED (StartRetest /\ FirstRetestRound(settings'.word_pairs)
                              # SecondRetestRound(settings'.word_pairs))

\* The stored marks of an inflection.
MarksOf(id) == {i \in DOMAIN betyg : betyg[i].WordID = id}

\* C22: the count statistic of every sampled inflection is the number of
\* stored marks of that inflection, wrong answers included.
C22_CountIsNumberOfMarks ==
  pc = "selected" =>
    \A r \in Range(selection.inflections) :
      r.frequency = Cardinality({i \in MarksOf(r.id) : betyg[i].Mark \in {0, 1}})

\* The chronologically last three (or fewer) stored marks of an inflection.
LastThreeOf(id) ==
  {i \in MarksOf(id) :
     Cardinality({j \in MarksOf(id) : betyg[j].Timestamp > betyg[i].Timestamp}) < 3}

C24_IndexWithinWordList ==
  /\ [](/\ raised # "IndexError"
        /\ pc = "game" =>
             /\ 0 <= status.question_number
             /\ status.question_number <= settings.total_questions
             /\ "submitButton" \in widgets =>
                  /\ status.question_number + 1 \in DOMAIN settings.word_pairs
                  /\ settings.current_word_pair = settings.word_pairs[status.question_number + 1]
             /\ "nextButton" \in widgets =>
                  status.question_number + 1 \in DOMAIN settings.word_pairs
             /\ status.question_number = settings.total_questions =>
                  /\ "submitButton" \notin widgets
                  /\ "nextButton" \notin widgets)
  /\ [][ ("submitButton" \in widgets /\ "submitButton" \notin widgets' /\ pc' = "game") =>
           status'.question_number = status.question_number + 1 ]_vars

\* s is an initial part of t.
IsPrefix(s, t) == Len(s) <= Len(t) /\ SubSeq(t, 1, Len(s)) = s

\* C25: within a session the pending marks only grow at the end (no
\* answer and no retest changes or removes a pending mark), they are
\* dropped only with the session, and every step leaves the stored history
\* an initial part of the new one, a commit adding exactly the pending
\* marks at its end.
C25_MarksAppendOnly ==
  [][ /\ n_games' = n_games => IsPrefix(status.marks, status'.marks)
      /\ IsPrefix(betyg, betyg')
      /\ betyg' # betyg => betyg' = betyg \o status.marks ]_vars

\* The marks of a second session have been committed after those of the
\* first.
C25_Witness ==
  /\ pc = "exited"
  /\ n_games = 2
  /\ Len(betyg) = 2
  /\ Len(status.marks) = 1
  /\ betyg[2] = status.marks[1]

\* The word groups of the fetched catalogue.
CatalogueGroups == {r.ordgrupp : r \in Range(game_words.words)}

\* C26: for a catalogue that is not empty and n_words >= 0 the selector
\* returns exactly min(n_words, number of word groups) ids, each bucket
\* holding at most n_words \div 3 rows.
C26_SelectionSize ==
  (pc = "selected" /\ settings.n_words >= 0 /\ ~no_words(game_words.words)) =>
    /\ raised = "none"
    /\ Len(selection.ids) = Min(settings.n_words, Cardinality(CatalogueGroups))
    /\ Len(game_words.lowest_scores) <= settings.n_words \div 3
    /\ Len(game_words.lowest_frequency) <= settings.n_words \div 3

\* The r-th round of the expanded word list.
RoundOf(word_pairs, r) ==
  SubSeq(word_pairs, (r - 1) * Len(selection.ids) + 1, r * Len(selection.ids))

\* The ids of the words of a list, position by position.
IdsOf(word_pairs) == [i \in DOMAIN word_pairs |-> word_pairs[i].id]

\* The word pairs of the selected ids, in the order of the selection.
SelectedPairs ==
  [i \in DOMAIN selection.ids |-> get_word_pair(selection.ids[i], settings.call_language)]

\* The word lists in which every round is some ordering of the selected
\* words, the rounds chosen independently of each other.
RECURSIVE IndependentRounds(_)
IndependentRounds(n) ==
  IF n = 0 THEN {<<>>}
  ELSE {[i \in DOMAIN SelectedPairs |-> SelectedPairs[p[i]]] \o rest :
          p \in Perms(DOMAIN SelectedPairs), rest \in IndependentRounds(n - 1)}

\* C27: every round of the expanded list holds every selected word exactly
\* once, so every word is asked n_rounds times; and every list made of
\* independently ordered rounds is among the results the expansion of the
\* selected words can give.
C27_RoundsArePermutations ==
  /\ pc = "expanded" =>
       /\ \A r \in 1..settings.n_rounds : \A id \in Range(selection.ids) :
            Occurrences(IdsOf(RoundOf(settings.word_pairs, r)), id) = 1
       /\ \A id \in Range(selection.ids) :
            Occurrences(IdsOf(settings.word_pairs), id) = settings.n_rounds
  /\ pc = "expand" =>
       IndependentRounds(settings.n_rounds)
         \subseteq shuffled_rounds(SelectedPairs, settings.n_rounds)

\* Three words expanded over two rounds, the second round in another order
\* than the first.
C27_Witness ==
  /\ pc = "expanded" /\ Len(selection.ids) = 3 /\ settings.n_rounds = 2
  /\ RoundOf(settings.word_pairs, 1) # RoundOf(settings.word_pairs, 2)

\* C28: in the primary pass there is exactly one pending mark per answered
\* question, in answer order, each 0 or 1 and for the word at that position
\* of the word list.  A question is answered once (checking the answer
\* takes the submit button away) and is not skipped (the question number
\* moves only when an answer is checked, and the question that is set is
\* the one at the number of answers given).
C28_OneMarkPerQuestion ==
  /\ []((pc = "game" /\ ~status.retest) =>
          /\ Len(status.marks) = status.question_number
          /\ \A i \in DOMAIN status.marks :
               /\ status.marks[i].WordID = settings.word_pairs[i].id
               /\ status.marks[i].Mark \in {0, 1}
               /\ \A j \in DOMAIN status.marks :
                    i < j => status.marks[i].Timestamp < status.marks[j].Timestamp
          /\ ~("submitButton" \in widgets /\ "nextButton" \in widgets)
          /\ "submitButton" \in widgets =>
               settings.current_word_pair = settings.word_pairs[Len(status.marks) + 1])
  /\ [][ (pc = "game" /\ pc' = "game" /\ ~status'.retest
            /\ status'.question_number # status.question_number) =>
           /\ status'.question_number = status.question_number + 1
           /\ Len(status'.marks) = Len(status.marks) + 1
           /\ "submitButton" \in widgets
           /\ "submitButton" \notin widgets' ]_vars

\* Two different words have been answered in the primary pass, the first
\* correctly and the second wrongly.
C28_Witness ==
  /\ pc = "game" /\ ~status.retest
  /\ status.question_number = 2
  /\ Len(status.marks) = 2
  /\ status.marks[1].WordID # status.marks[2].WordID
  /\ status.marks[1].Mark = 1 /\ status.marks[2].Mark = 0

\* C29: a new game starts from a fresh state (question number 0, no
\* pending mark, empty incorrect set, not a retest, no word list), the
\* marks of the session before having been committed in that same step
\* (unless the no-commit option drops them); in the new session no
\* pending mark is a stored one and marks and incorrect words are of the
\* session's own word list.
C29_NewGameStartsFresh ==
  /\ [][ n_games' # n_games =>
           /\ n_games' = n_games + 1
           /\ pc' = "menu"
           /\ status'.question_number = 0
           /\ status'.marks = <<>>
           /\ status'.incorrect_answers = {}
           /\ ~status'.retest
           /\ settings'.word_pairs = <<>>
           /\ betyg' = IF no_commit THEN betyg ELSE betyg \o status.marks ]_vars
  /\ [](pc = "menu" =>
          /\ status.question_number = 0
          /\ status.marks = <<>>
          /\ status.incorrect_answers = {}
          /\ ~status.retest)
  /\ []((pc = "game" /\ n_games >= 2) =>
          /\ Range(status.marks) \cap Range(betyg) = {}
          /\ \A i \in DOMAIN status.marks : \A j \in DOMAIN betyg :
               betyg[j].Timestamp < status.marks[i].Timestamp
          /\ ~status.retest =>
               \A i \in DOMAIN status.marks : status.marks[i].WordID \in WordListIds
          /\ \A w \in status.incorrect_answers : w.id \in MarkedWrong)

\* The session before ended with a wrong answer stored; in the new game
\* one answer has been checked, correctly, and the incorrect set is empty.
C29_Witness ==
  /\ pc = "game" /\ n_games = 2
  /\ Len(betyg) = 1 /\ betyg[1].Mark = 0
  /\ Len(status.marks) = 1 /\ status.marks[1].Mark = 1
  /\ status.incorrect_answers = {}

\* C30: while a question is on, the progress label shows a question number
\* between 1 and the questions per round and a round between 1 and the
\* number of rounds, which is n_rounds in the primary pass and 2 in a
\* retest; the questions per round are the number of selected words (of
\* incorrect words in a retest), never 0 (no division by 0 is raised), and
\* their product with the number of rounds is the number of questions.
C30_ProgressWithinBounds ==
  /\ raised # "ZeroDivisionError"
  /\ progress # NoProgress => progress.questions_per_round >= 1
  /\ "submitButton" \in widgets =>
       /\ progress # NoProgress
       /\ 1 <= progress.current_question
       /\ progress.current_question <= progress.questions_per_round
       /\ 1 <= progress.current_round
       /\ progress.current_round <= progress.n_rounds
       /\ progress.n_rounds = IF status.retest THEN 2 ELSE settings.n_rounds
       /\ progress.questions_per_round = settings.questions_per_round
       /\ progress.questions_per_round =
            IF status.retest THEN Cardinality(status.incorrect_answers)
            ELSE Cardinality(WordListIds)
       /\ settings.total_questions = progress.questions_per_round * progress.n_rounds
       /\ status.question_number =
            (progress.current_round - 1) * progress.questions_per_round
            + progress.current_question - 1

\* The last question of a retest over two words is on: question 2 of 2 in
\* retest round 2 of 2.
C30_Witness ==
  /\ "submitButton" \in widgets
  /\ status.retest
  /\ progress = [current_question |-> 2, questions_per_round |-> 2,
                 current_round |-> 2, n_rounds |-> 2]

=============================================================================
